---- MODULE Spec2Model ----
(***************************************************************************)
(* Model of stack/src/common/circbuf/circbuf-nooshostif.c: the circular    *)
(* buffer architecture layer of a PCP / host processor pair that share a   *)
(* memory window through the host interface IP core.                       *)
(*                                                                         *)
(* The same source is compiled once per CPU; CONFIG_HOSTIF_PCP selects the *)
(* identity the CPU writes into the lock byte.  Every access to the shared *)
(* window (HOSTIF_RD8 / HOSTIF_WR8) is one step of the model; everything a *)
(* CPU does on its private memory between two such accesses is folded into *)
(* the step of the access that follows or precedes it.                     *)
(***************************************************************************)
EXTENDS Integers, Sequences, FiniteSets, TLC

----------------------------------------------------------------------------
(* Bounds of the model *)

\* unmatched circbuf_lock calls a CPU may have outstanding
MaxNest == 2

\* capacity (bytes) of a slot as reported by hostif_getBuf through bufSize
BufSize == 32

\* heap blocks OPLK_MALLOC can hand out on one CPU
NumBlocks == 1

\* lock byte accesses of one circbuf_lock call counted exactly below this
MaxCount == 2

\* values of a UINT8 the window may hold at the start that are told apart:
\* 0 .. MaxByte, of which those above 2 are no value the code ever writes
MaxByte == 3

----------------------------------------------------------------------------
(* Program constants *)

NULL == 0

\* hostiflib_nios.h: base address of the host interface window
HOSTIF_BASE == 268435456

\* tHostifInstanceId tokens of the table below
kHostifInstIdInvalid == "kHostifInstIdInvalid"

\* const tHostifInstanceId hostifInstance[NR_OF_CIRC_BUFFERS]; C index i is
\* element i + 1 of the sequence
hostifInstance ==
    << "kHostifInstIdU2KQueue", "kHostifInstIdK2UQueue",
       kHostifInstIdInvalid, kHostifInstIdInvalid,
       "kHostifInstIdTxGenQueue", "kHostifInstIdTxNmtQueue",
       "kHostifInstIdTxSyncQueue",
       kHostifInstIdInvalid, kHostifInstIdInvalid,
       kHostifInstIdInvalid, kHostifInstIdInvalid >>

NR_OF_CIRC_BUFFERS == Len(hostifInstance)

\* the two builds of the file
CPU == {"pcp", "host"}

Other(c) == IF c = "pcp" THEN "host" ELSE "pcp"

\* the build flag ignored: both builds write 0x01U
CIRCBUF_HOSTIF_LOCK_oneIdentity(c) == 1

\* #if CONFIG_HOSTIF_PCP == TRUE ... 0x01U #else 0x02U
CIRCBUF_HOSTIF_LOCK(c) == IF c = "pcp" THEN 1 ELSE 2

CIRCBUF_HOSTIF_UNLOCK == 0

\* tCircBufHostiBuffer: UINT8 lock; UINT8 aReserved[3]; tCircBufHeader ...
OffsetofCircBufHeader == 4

\* sizeof(tCircBufHeader): five UINT32 fields (circbuf-arch.h / circbuffer.h)
SizeofCircBufHeader == 20

SizeofCircBufHostiBuffer == OffsetofCircBufHeader + SizeofCircBufHeader

\* the header pointer taken for the envelope base
GET_QUEUE_BUF_BASE_noOffset(pHeader) == pHeader

\* GET_QUEUE_BUF_BASE(pHeader): the envelope base recovered from the header
GET_QUEUE_BUF_BASE(pHeader) == pHeader - OffsetofCircBufHeader

----------------------------------------------------------------------------
(* size_t / UINT arithmetic: 32 bit unsigned, kept as two 16 bit halves    *)

Half == 2^16

U32(n) == [hi |-> n \div Half, lo |-> n % Half]

AddU32(a, b) ==
    LET lo == a.lo + b.lo
        hi == a.hi + b.hi + (lo \div Half)
    IN  [hi |-> hi % Half, lo |-> lo % Half]

SubU32(a, b) ==
    LET lo == a.lo - b.lo
        hi == a.hi - b.hi - (IF lo < 0 THEN 1 ELSE 0)
    IN  [hi |-> hi % Half, lo |-> lo % Half]

\* the capacity test turned into size >= bufSize
GtU32_orEqual(a, b) == a.hi > b.hi \/ (a.hi = b.hi /\ a.lo >= b.lo)

GtU32(a, b) == a.hi > b.hi \/ (a.hi = b.hi /\ a.lo > b.lo)

----------------------------------------------------------------------------
(* The queues exercised and the environment's answers *)

\* U2K event queue (shared slot) and kernel internal event queue (local)
QueueIds == {0, 2}

IsShared(id) == hostifInstance[id + 1] # kHostifInstIdInvalid

SharedIds == {id \in QueueIds : IsShared(id)}

\* pBufBase of hostif_getBuf: where the slot of a queue lies in the window
BufBase(id) == HOSTIF_BASE + 256 * (id + 1)

\* the cells of the window the model keeps: of every shared slot the lock
\* byte and the ring header (one cell for its content, which this layer never
\* writes)
WindowAddrs ==
    UNION {{BufBase(id), BufBase(id) + OffsetofCircBufHeader} : id \in SharedIds}

\* what a lock byte may hold before any write of this layer: the window is
\* not initialised by this file, so HOSTIF_RD8 can see any byte
ByteInputs == 0..MaxByte

\* what the first word of a ring header may hold at the start: this layer
\* neither reads nor writes it
HeaderInputs == {0, 50529027}

\* hostif_getInstance(0): the driver's handle, or NULL before it exists
HostifHandle == HOSTIF_BASE

HostifInstances == {NULL, HostifHandle}

\* tHostifReturn of hostif_getBuf
HostifRet == {"kHostifSuccessful", "kHostifInvalidParameter"}

\* addresses OPLK_MALLOC may return
HeapBlocks == {256 * k : k \in 1..NumBlocks}

\* requested sizes: below the envelope, the envelope, the capacity and beyond
SizeInputs ==
    { U32(0), U32(SizeofCircBufHostiBuffer - 1), U32(SizeofCircBufHostiBuffer),
      U32(BufSize), U32(BufSize + 1) }

\* the size the two-CPU specification allocates with
SpecSizes == { U32(BufSize), U32(BufSize + 1) }

----------------------------------------------------------------------------
VARIABLES
    inst,       \* instance_l of each CPU: id -> tCircBufInstance
    handle,     \* per CPU: ids whose instance pointer the caller holds
    mem,        \* shared window: address of a slot's lock byte -> UINT8,
                \* address of its ring header -> the header's content
    heap,       \* per CPU: blocks OPLK_MALLOC handed out and not yet freed
    heapFault,  \* per CPU: OPLK_FREE was given a block that is not allocated
    pc,         \* per CPU: position inside circbuf_lock / circbuf_unlock
    cur,        \* per CPU: pInstance_p of the lock / unlock in progress
    held,       \* per CPU: id -> circbuf_lock calls returned and not unlocked
    irqDepth,   \* per CPU: nesting depth of the global interrupt gate
    hist,       \* per CPU: lock byte accesses of its circbuf_lock call: wr the
                \* HOSTIF_WR8 since the entry, rd the HOSTIF_RD8 since the
                \* last of them (since the entry if there is none)
    last        \* the call or step performed last, with what it saw and gave

vars ==
    << inst, handle, mem, heap, heapFault, pc, cur, held, irqDepth, hist, last >>

\* target_enableGlobalInterrupt: interrupts are on when no disable is pending
IrqEnabled(c) == irqDepth[c] = 0

RECURSIVE SumOver(_, _)
SumOver(f, S) ==
    IF S = {} THEN 0
    ELSE LET x == CHOOSE y \in S : TRUE IN f[x] + SumOver(f, S \ {x})

\* circbuf_lock calls of a CPU that returned and are not yet unlocked
HeldTotal(c) == SumOver(held[c], QueueIds)

\* a record of one call or step
Step(c, op, id, size, ext, rc, out, acc, val) ==
    [cpu |-> c, op |-> op, id |-> id, size |-> size, ext |-> ext, rc |-> rc,
     out |-> out, acc |-> acc, val |-> val]

\* no access to the lock byte yet
NoAccess == [wr |-> 0, rd |-> 0]

\* one more access counted, MaxCount standing for MaxCount or more
Count(n) == IF n < MaxCount THEN n + 1 ELSE MaxCount

NoStep == Step("none", "none", 0, U32(0), "na", "na", U32(0), "none", 0)

\* instance_l is zero-initialised static storage; the window holds whatever
\* it held before the program started (nothing here clears it; the first
\* write to a lock byte is that of circbuf_allocBuffer, circbuf_lock or
\* circbuf_unlock); interrupts are enabled and no CPU is inside a queue
\* function
Init ==
    /\ inst = [c \in CPU |-> [id \in QueueIds |->
                  [pCircBufArchInstance |-> NULL, pCircBufHeader |-> NULL,
                   pCircBuf |-> NULL, bufferId |-> 0]]]
    /\ handle = [c \in CPU |-> {}]
    /\ mem \in { m \in [WindowAddrs -> ByteInputs \cup HeaderInputs] :
                    \A id \in SharedIds :
                        /\ m[BufBase(id)] \in ByteInputs
                        /\ m[BufBase(id) + OffsetofCircBufHeader] \in HeaderInputs }
    /\ heap = [c \in CPU |-> {}]
    /\ heapFault = [c \in CPU |-> FALSE]
    /\ pc = [c \in CPU |-> "idle"]
    /\ cur = [c \in CPU |-> 0]
    /\ held = [c \in CPU |-> [id \in QueueIds |-> 0]]
    /\ irqDepth = [c \in CPU |-> 0]
    /\ hist = [c \in CPU |-> NoAccess]
    /\ last = NoStep

----------------------------------------------------------------------------
(* Interrupt gate of the target layer *)

\* target_enableGlobalInterrupt(fEnable_p) belongs to the target layer, which
\* is not part of this file; it is modelled after the design of the interrupt
\* gate: FALSE disables and nests, TRUE undoes one disable, and the outermost
\* restore is the effective one
target_enableGlobalInterrupt(c, fEnable_p) ==
    irqDepth' = [irqDepth EXCEPT ![c] = IF fEnable_p THEN @ - 1 ELSE @ + 1]

\* an interrupt handler of CPU c runs: only while the gate is open
Isr(c) ==
    /\ IrqEnabled(c)
    /\ last' = Step(c, "isr", 0, U32(0), "na", "na", U32(0), "none", 0)
    /\ UNCHANGED << inst, handle, mem, heap, heapFault, pc, cur, held, irqDepth, hist >>

----------------------------------------------------------------------------
(* circbuf_createInstance / circbuf_freeInstance *)

\* the handle stored before it is tested: a failed lookup marks the
\* instance local
circbuf_createInstance_storeFirst(c, id_p, pHostif) ==
    /\ pc[c] = "idle"
    /\ IF hostifInstance[id_p + 1] = kHostifInstIdInvalid
       THEN /\ inst' = [inst EXCEPT ![c][id_p].pCircBufArchInstance = NULL,
                                    ![c][id_p].bufferId = id_p]
            /\ handle' = [handle EXCEPT ![c] = @ \cup {id_p}]
            /\ last' = Step(c, "createInstance", id_p, U32(0), "na",
                            "instance", U32(0), "none", 0)
       ELSE IF pHostif = NULL
       THEN /\ inst' = [inst EXCEPT ![c][id_p].pCircBufArchInstance = pHostif]
            /\ last' = Step(c, "createInstance", id_p, U32(0), "absent",
                            "NULL", U32(0), "none", 0)
            /\ UNCHANGED handle
       ELSE /\ inst' = [inst EXCEPT ![c][id_p].pCircBufArchInstance = pHostif,
                                    ![c][id_p].bufferId = id_p]
            /\ handle' = [handle EXCEPT ![c] = @ \cup {id_p}]
            /\ last' = Step(c, "createInstance", id_p, U32(0), "present",
                            "instance", U32(0), "none", 0)
    /\ UNCHANGED << mem, heap, heapFault, pc, cur, held, irqDepth, hist >>

\* pHostif is what hostif_getInstance(0) answers if it is asked
circbuf_createInstance(c, id_p, pHostif) ==
    /\ pc[c] = "idle"
    /\ IF hostifInstance[id_p + 1] = kHostifInstIdInvalid
       THEN \* Queue must use local resources
            /\ inst' = [inst EXCEPT ![c][id_p].pCircBufArchInstance = NULL,
                                    ![c][id_p].bufferId = id_p]
            /\ handle' = [handle EXCEPT ![c] = @ \cup {id_p}]
            /\ last' = Step(c, "createInstance", id_p, U32(0), "na",
                            "instance", U32(0), "none", 0)
       ELSE IF pHostif = NULL
       THEN \* getting hostif instance failed: return NULL
            /\ last' = Step(c, "createInstance", id_p, U32(0), "absent",
                            "NULL", U32(0), "none", 0)
            /\ UNCHANGED << inst, handle >>
       ELSE /\ inst' = [inst EXCEPT ![c][id_p].pCircBufArchInstance = pHostif,
                                    ![c][id_p].bufferId = id_p]
            /\ handle' = [handle EXCEPT ![c] = @ \cup {id_p}]
            /\ last' = Step(c, "createInstance", id_p, U32(0), "present",
                            "instance", U32(0), "none", 0)
    /\ UNCHANGED << mem, heap, heapFault, pc, cur, held, irqDepth, hist >>

circbuf_freeInstance(c, id) ==
    /\ pc[c] = "idle"
    /\ id \in handle[c]
    /\ last' = Step(c, "freeInstance", id, U32(0), "na", "na", U32(0), "none", 0)
    /\ UNCHANGED << inst, handle, mem, heap, heapFault, pc, cur, held, irqDepth, hist >>

----------------------------------------------------------------------------
(* circbuf_allocBuffer / circbuf_freeBuffer *)

\* only the ring header taken off, the lock and reserved bytes forgotten
AllocPayloadSize_headerOnly(size) == SubU32(size, U32(SizeofCircBufHeader))

\* size -= sizeof(tCircBufHostiBuffer): the payload size handed back
AllocPayloadSize(size) == SubU32(size, U32(SizeofCircBufHostiBuffer))

\* size is *pSize_p on entry, pBlock what OPLK_MALLOC answers (local queue),
\* ret what hostif_getBuf answers (shared queue)
circbuf_allocBuffer(c, id, size, pBlock, ret) ==
    /\ pc[c] = "idle"
    /\ id \in handle[c]
    /\ IF inst[c][id].pCircBufArchInstance = NULL
       THEN \* Allocate requested size + header
            /\ ~heapFault[c]
            /\ pBlock \in {NULL} \cup (HeapBlocks \ heap[c])
            /\ IF pBlock = NULL
               THEN /\ inst' = [inst EXCEPT ![c][id].pCircBufHeader = NULL]
                    /\ heap' = heap
                    /\ last' = Step(c, "allocBuffer", id, size, "malloc_failed",
                                    "kCircBufNoResource", size, "none", 0)
               ELSE /\ inst' = [inst EXCEPT
                           ![c][id].pCircBufHeader = pBlock,
                           ![c][id].pCircBuf = pBlock + SizeofCircBufHeader]
                    /\ heap' = [heap EXCEPT ![c] = @ \cup {pBlock}]
                    /\ last' = Step(c, "allocBuffer", id, size, "malloc_ok",
                                    "kCircBufOk", size, "none", 0)
            /\ mem' = mem
       ELSE \* Queue must use host interface
            /\ pBlock = NULL
            /\ heap' = heap
            /\ IF ret # "kHostifSuccessful"
               THEN /\ last' = Step(c, "allocBuffer", id, size, "getBuf_failed",
                                    "kCircBufNoResource", size, "none", 0)
                    /\ UNCHANGED << inst, mem >>
               ELSE IF GtU32(size, U32(BufSize))
               THEN /\ last' = Step(c, "allocBuffer", id, size, "getBuf_ok",
                                    "kCircBufNoResource", size, "none", 0)
                    /\ UNCHANGED << inst, mem >>
               ELSE LET pHostifBuffer == BufBase(inst[c][id].bufferId) IN
                    /\ inst' = [inst EXCEPT
                           ![c][id].pCircBufHeader =
                               pHostifBuffer + OffsetofCircBufHeader,
                           ![c][id].pCircBuf =
                               pHostifBuffer + SizeofCircBufHostiBuffer]
                    /\ mem' = [mem EXCEPT ![pHostifBuffer] = CIRCBUF_HOSTIF_UNLOCK]
                    /\ last' = Step(c, "allocBuffer", id, size, "getBuf_ok",
                                    "kCircBufOk",
                                    AllocPayloadSize(size),
                                    "wr", CIRCBUF_HOSTIF_UNLOCK)
    /\ UNCHANGED << handle, heapFault, pc, cur, held, irqDepth, hist >>

circbuf_freeBuffer(c, id) ==
    /\ pc[c] = "idle"
    /\ id \in handle[c]
    /\ IF inst[c][id].pCircBufArchInstance = NULL
       THEN LET p == inst[c][id].pCircBufHeader IN
            /\ ~heapFault[c]
            /\ heap' = [heap EXCEPT ![c] = @ \ {p}]
            /\ heapFault' = [heapFault EXCEPT ![c] = (p # NULL /\ p \notin heap[c])]
            /\ last' = Step(c, "freeBuffer", id, U32(0),
                            IF p = NULL THEN "free_null"
                            ELSE IF p \in heap[c] THEN "free_live" ELSE "free_freed",
                            "na", U32(0), "none", 0)
       ELSE /\ last' = Step(c, "freeBuffer", id, U32(0), "na", "na", U32(0),
                            "none", 0)
            /\ UNCHANGED << heap, heapFault >>
    /\ UNCHANGED << inst, handle, mem, pc, cur, held, irqDepth, hist >>

----------------------------------------------------------------------------
(* circbuf_connectBuffer / circbuf_disconnectBuffer *)

\* the attach initialising the lock byte the way the allocation does
circbuf_connectBuffer_initLock(c, id, ret) ==
    /\ pc[c] = "idle"
    /\ id \in handle[c]
    /\ IF inst[c][id].pCircBufArchInstance # NULL
       THEN IF ret # "kHostifSuccessful"
            THEN /\ last' = Step(c, "connectBuffer", id, U32(0), "getBuf_failed",
                                 "kCircBufNoResource", U32(0), "none", 0)
                 /\ UNCHANGED << inst, mem >>
            ELSE LET pHostifBuffer == BufBase(inst[c][id].bufferId) IN
                 /\ inst' = [inst EXCEPT
                        ![c][id].pCircBufHeader =
                            pHostifBuffer + OffsetofCircBufHeader,
                        ![c][id].pCircBuf =
                            pHostifBuffer + SizeofCircBufHostiBuffer]
                 /\ mem' = [mem EXCEPT ![pHostifBuffer] = CIRCBUF_HOSTIF_UNLOCK]
                 /\ last' = Step(c, "connectBuffer", id, U32(0), "getBuf_ok",
                                 "kCircBufOk", U32(0), "none", 0)
       ELSE /\ last' = Step(c, "connectBuffer", id, U32(0), "na",
                            "kCircBufOk", U32(0), "none", 0)
            /\ UNCHANGED << inst, mem >>
    /\ UNCHANGED << handle, heap, heapFault, pc, cur, held, irqDepth, hist >>

\* ret is what hostif_getBuf answers (shared queue)
circbuf_connectBuffer(c, id, ret) ==
    /\ pc[c] = "idle"
    /\ id \in handle[c]
    /\ IF inst[c][id].pCircBufArchInstance # NULL
       THEN \* Queue must use host interface
            IF ret # "kHostifSuccessful"
            THEN /\ last' = Step(c, "connectBuffer", id, U32(0), "getBuf_failed",
                                 "kCircBufNoResource", U32(0), "none", 0)
                 /\ inst' = inst
            ELSE LET pHostifBuffer == BufBase(inst[c][id].bufferId) IN
                 /\ inst' = [inst EXCEPT
                        ![c][id].pCircBufHeader =
                            pHostifBuffer + OffsetofCircBufHeader,
                        ![c][id].pCircBuf =
                            pHostifBuffer + SizeofCircBufHostiBuffer]
                 /\ last' = Step(c, "connectBuffer", id, U32(0), "getBuf_ok",
                                 "kCircBufOk", U32(0), "none", 0)
       ELSE /\ last' = Step(c, "connectBuffer", id, U32(0), "na",
                            "kCircBufOk", U32(0), "none", 0)
            /\ inst' = inst
    /\ UNCHANGED << handle, mem, heap, heapFault, pc, cur, held, irqDepth, hist >>

circbuf_disconnectBuffer(c, id) ==
    /\ pc[c] = "idle"
    /\ id \in handle[c]
    /\ last' = Step(c, "disconnectBuffer", id, U32(0), "na", "na", U32(0),
                    "none", 0)
    /\ UNCHANGED << inst, handle, mem, heap, heapFault, pc, cur, held, irqDepth, hist >>

----------------------------------------------------------------------------
(* circbuf_lock *)

\* the byte HOSTIF_RD8 / HOSTIF_WR8 address in a lock or unlock of instance id
LockAddr(c, id) == GET_QUEUE_BUF_BASE(inst[c][id].pCircBufHeader)

\* the gate closed only on the host interface branch
circbuf_lock_gateInBranch(c, id) ==
    /\ pc[c] = "idle"
    /\ id \in handle[c]
    /\ HeldTotal(c) < MaxNest
    /\ IF inst[c][id].pCircBufArchInstance # NULL
       THEN /\ inst[c][id].pCircBufHeader # NULL
            /\ target_enableGlobalInterrupt(c, FALSE)
            /\ pc' = [pc EXCEPT ![c] = "lock_rd"]
            /\ cur' = [cur EXCEPT ![c] = id]
            /\ held' = held
            /\ last' = Step(c, "lock", id, U32(0), "na", "na", U32(0), "none", 0)
       ELSE /\ held' = [held EXCEPT ![c][id] = @ + 1]
            /\ last' = Step(c, "lock", id, U32(0), "na", "returned", U32(0),
                            "none", 0)
            /\ UNCHANGED << pc, cur, irqDepth >>
    /\ hist' = [hist EXCEPT ![c] = NoAccess]
    /\ UNCHANGED << inst, handle, mem, heap, heapFault >>

\* the gate closed only for a local queue: the host interface branch spins
\* and takes the byte with the interrupts of the CPU still enabled
circbuf_lock_gateLocalOnly(c, id) ==
    /\ pc[c] = "idle"
    /\ id \in handle[c]
    /\ HeldTotal(c) < MaxNest
    /\ IF inst[c][id].pCircBufArchInstance # NULL
       THEN /\ inst[c][id].pCircBufHeader # NULL
            /\ pc' = [pc EXCEPT ![c] = "lock_rd"]
            /\ cur' = [cur EXCEPT ![c] = id]
            /\ last' = Step(c, "lock", id, U32(0), "na", "na", U32(0), "none", 0)
            /\ UNCHANGED << held, irqDepth >>
       ELSE /\ target_enableGlobalInterrupt(c, FALSE)
            /\ held' = [held EXCEPT ![c][id] = @ + 1]
            /\ last' = Step(c, "lock", id, U32(0), "na", "returned", U32(0),
                            "none", 0)
            /\ UNCHANGED << pc, cur >>
    /\ hist' = [hist EXCEPT ![c] = NoAccess]
    /\ UNCHANGED << inst, handle, mem, heap, heapFault >>

\* entry of circbuf_lock: target_enableGlobalInterrupt(FALSE), then the test
\* of pCircBufArchInstance; a local queue returns at once.  A shared queue is
\* locked only once alloc or connect has wired its header pointer.
circbuf_lock(c, id) ==
    /\ pc[c] = "idle"
    /\ id \in handle[c]
    /\ HeldTotal(c) < MaxNest
    /\ target_enableGlobalInterrupt(c, FALSE)
    /\ IF inst[c][id].pCircBufArchInstance # NULL
       THEN /\ inst[c][id].pCircBufHeader # NULL
            /\ pc' = [pc EXCEPT ![c] = "lock_rd"]
            /\ cur' = [cur EXCEPT ![c] = id]
            /\ held' = held
            /\ last' = Step(c, "lock", id, U32(0), "na", "na", U32(0), "none", 0)
       ELSE /\ held' = [held EXCEPT ![c][id] = @ + 1]
            /\ last' = Step(c, "lock", id, U32(0), "na", "returned", U32(0),
                            "none", 0)
            /\ UNCHANGED << pc, cur >>
    /\ hist' = [hist EXCEPT ![c] = NoAccess]
    /\ UNCHANGED << inst, handle, mem, heap, heapFault >>

\* the write guarded by lockValue != CIRCBUF_HOSTIF_LOCK instead of
\* lockValue == CIRCBUF_HOSTIF_UNLOCK: a byte held by the other CPU is taken
circbuf_lock_read_steal(c) ==
    /\ pc[c] = "lock_rd"
    /\ LET lockValue == mem[LockAddr(c, cur[c])] IN
       IF lockValue # CIRCBUF_HOSTIF_LOCK(c)
       THEN /\ pc' = [pc EXCEPT ![c] = "lock_wr"]
            /\ held' = held
            /\ last' = Step(c, "lock_rd", cur[c], U32(0), "na", "na", U32(0),
                            "rd", lockValue)
       ELSE /\ pc' = [pc EXCEPT ![c] = "idle"]
            /\ held' = [held EXCEPT ![c][cur[c]] = @ + 1]
            /\ last' = Step(c, "lock_rd", cur[c], U32(0), "na", "returned",
                            U32(0), "rd", lockValue)
    /\ hist' = [hist EXCEPT ![c].rd = Count(@)]
    /\ UNCHANGED << inst, handle, mem, heap, heapFault, cur, irqDepth >>

\* the loop that knows no exit: a read of the own identity loops like a read
\* of the other one
circbuf_lock_read_noExit(c) ==
    /\ pc[c] = "lock_rd"
    /\ LET lockValue == mem[LockAddr(c, cur[c])] IN
       /\ pc' = [pc EXCEPT ![c] = IF lockValue = CIRCBUF_HOSTIF_UNLOCK
                                  THEN "lock_wr" ELSE "lock_rd"]
       /\ last' = Step(c, "lock_rd", cur[c], U32(0), "na", "na", U32(0),
                       "rd", lockValue)
    /\ hist' = [hist EXCEPT ![c].rd = Count(@)]
    /\ UNCHANGED << inst, handle, mem, heap, heapFault, cur, held, irqDepth >>

\* the loop left on any identity, while (lockValue == CIRCBUF_HOSTIF_UNLOCK):
\* a byte that holds the other identity counts as taken by the caller
circbuf_lock_read_anyIdentity(c) ==
    /\ pc[c] = "lock_rd"
    /\ LET lockValue == mem[LockAddr(c, cur[c])] IN
       IF lockValue = CIRCBUF_HOSTIF_UNLOCK
       THEN /\ pc' = [pc EXCEPT ![c] = "lock_wr"]
            /\ held' = held
            /\ last' = Step(c, "lock_rd", cur[c], U32(0), "na", "na", U32(0),
                            "rd", lockValue)
       ELSE /\ pc' = [pc EXCEPT ![c] = "idle"]
            /\ held' = [held EXCEPT ![c][cur[c]] = @ + 1]
            /\ last' = Step(c, "lock_rd", cur[c], U32(0), "na", "returned",
                            U32(0), "rd", lockValue)
    /\ hist' = [hist EXCEPT ![c].rd = Count(@)]
    /\ UNCHANGED << inst, handle, mem, heap, heapFault, cur, irqDepth >>

\* lockValue = HOSTIF_RD8(&pHostifBuf->lock, 0) and the tests on lockValue:
\* UNLOCK goes on to the write, the own identity fails the while condition
\* and returns, anything else loops back to the read
circbuf_lock_read(c) ==
    /\ pc[c] = "lock_rd"
    /\ LET lockValue == mem[LockAddr(c, cur[c])] IN
       IF lockValue = CIRCBUF_HOSTIF_UNLOCK
       THEN /\ pc' = [pc EXCEPT ![c] = "lock_wr"]
            /\ held' = held
            /\ last' = Step(c, "lock_rd", cur[c], U32(0), "na", "na", U32(0),
                            "rd", lockValue)
       ELSE IF lockValue # CIRCBUF_HOSTIF_LOCK(c)
       THEN /\ UNCHANGED << pc, held >>
            /\ last' = Step(c, "lock_rd", cur[c], U32(0), "na", "na", U32(0),
                            "rd", lockValue)
       ELSE /\ pc' = [pc EXCEPT ![c] = "idle"]
            /\ held' = [held EXCEPT ![c][cur[c]] = @ + 1]
            /\ last' = Step(c, "lock_rd", cur[c], U32(0), "na", "returned",
                            U32(0), "rd", lockValue)
    /\ hist' = [hist EXCEPT ![c].rd = Count(@)]
    /\ UNCHANGED << inst, handle, mem, heap, heapFault, cur, irqDepth >>

\* the wrong constant in the write: HOSTIF_WR8 stores CIRCBUF_HOSTIF_UNLOCK
circbuf_lock_write_unlockValue(c) ==
    /\ pc[c] = "lock_wr"
    /\ mem' = [mem EXCEPT ![LockAddr(c, cur[c])] = CIRCBUF_HOSTIF_UNLOCK]
    /\ pc' = [pc EXCEPT ![c] = "lock_rd"]
    /\ last' = Step(c, "lock_wr", cur[c], U32(0), "na", "na", U32(0), "wr",
                    CIRCBUF_HOSTIF_UNLOCK)
    /\ hist' = [hist EXCEPT ![c] = [wr |-> Count(@.wr), rd |-> 0]]
    /\ UNCHANGED << inst, handle, heap, heapFault, cur, held, irqDepth >>

\* a plain test-and-set: break instead of continue, the call returns on its
\* write without reading the byte back
circbuf_lock_write_noReadBack(c) ==
    /\ pc[c] = "lock_wr"
    /\ mem' = [mem EXCEPT ![LockAddr(c, cur[c])] = CIRCBUF_HOSTIF_LOCK(c)]
    /\ pc' = [pc EXCEPT ![c] = "idle"]
    /\ held' = [held EXCEPT ![c][cur[c]] = @ + 1]
    /\ last' = Step(c, "lock_wr", cur[c], U32(0), "na", "returned", U32(0),
                    "wr", CIRCBUF_HOSTIF_LOCK(c))
    /\ hist' = [hist EXCEPT ![c] = [wr |-> Count(@.wr), rd |-> 0]]
    /\ UNCHANGED << inst, handle, heap, heapFault, cur, irqDepth >>

\* HOSTIF_WR8(&pHostifBuf->lock, 0, CIRCBUF_HOSTIF_LOCK); continue: lockValue
\* is still UNLOCK, so the while condition holds and the loop reads again
circbuf_lock_write(c) ==
    /\ pc[c] = "lock_wr"
    /\ mem' = [mem EXCEPT ![LockAddr(c, cur[c])] = CIRCBUF_HOSTIF_LOCK(c)]
    /\ pc' = [pc EXCEPT ![c] = "lock_rd"]
    /\ last' = Step(c, "lock_wr", cur[c], U32(0), "na", "na", U32(0), "wr",
                    CIRCBUF_HOSTIF_LOCK(c))
    /\ hist' = [hist EXCEPT ![c] = [wr |-> Count(@.wr), rd |-> 0]]
    /\ UNCHANGED << inst, handle, heap, heapFault, cur, held, irqDepth >>

----------------------------------------------------------------------------
(* circbuf_unlock *)

\* a counting release: the byte is cleared by the outermost circbuf_unlock
\* only
circbuf_unlock_counting(c, id) ==
    /\ pc[c] = "idle"
    /\ held[c][id] > 0
    /\ held' = [held EXCEPT ![c][id] = @ - 1]
    /\ IF inst[c][id].pCircBufArchInstance # NULL
       THEN /\ IF held[c][id] = 1
               THEN /\ mem' = [mem EXCEPT
                           ![LockAddr(c, id)] = CIRCBUF_HOSTIF_UNLOCK]
                    /\ last' = Step(c, "unlock", id, U32(0), "na", "na",
                                    U32(0), "wr", CIRCBUF_HOSTIF_UNLOCK)
               ELSE /\ mem' = mem
                    /\ last' = Step(c, "unlock", id, U32(0), "na", "na",
                                    U32(0), "none", 0)
            /\ pc' = [pc EXCEPT ![c] = "unlock_irq"]
            /\ cur' = [cur EXCEPT ![c] = id]
            /\ irqDepth' = irqDepth
       ELSE /\ target_enableGlobalInterrupt(c, TRUE)
            /\ last' = Step(c, "unlock", id, U32(0), "na", "returned", U32(0),
                            "none", 0)
            /\ UNCHANGED << mem, pc, cur >>
    /\ hist' = [hist EXCEPT ![c] = NoAccess]
    /\ UNCHANGED << inst, handle, heap, heapFault >>

\* the test of pCircBufArchInstance dropped: the byte in front of the header
\* is written for every queue, wherever that header lies
circbuf_unlock_noBranch(c, id) ==
    /\ pc[c] = "idle"
    /\ held[c][id] > 0
    /\ held' = [held EXCEPT ![c][id] = @ - 1]
    /\ mem' = [a \in DOMAIN mem |->
                  IF a = LockAddr(c, id) THEN CIRCBUF_HOSTIF_UNLOCK ELSE mem[a]]
    /\ pc' = [pc EXCEPT ![c] = "unlock_irq"]
    /\ cur' = [cur EXCEPT ![c] = id]
    /\ irqDepth' = irqDepth
    /\ last' = Step(c, "unlock", id, U32(0), "na", "na", U32(0), "wr",
                    CIRCBUF_HOSTIF_UNLOCK)
    /\ hist' = [hist EXCEPT ![c] = NoAccess]
    /\ UNCHANGED << inst, handle, heap, heapFault >>

\* the release that forgets HOSTIF_WR8: only the gate is opened
circbuf_unlock_noWrite(c, id) ==
    /\ pc[c] = "idle"
    /\ held[c][id] > 0
    /\ held' = [held EXCEPT ![c][id] = @ - 1]
    /\ target_enableGlobalInterrupt(c, TRUE)
    /\ last' = Step(c, "unlock", id, U32(0), "na", "returned", U32(0),
                    "none", 0)
    /\ hist' = [hist EXCEPT ![c] = NoAccess]
    /\ UNCHANGED << inst, handle, mem, heap, heapFault, pc, cur >>

\* entry of circbuf_unlock on a queue the caller has locked: a shared queue
\* gets HOSTIF_WR8(&pHostifBuf->lock, 0, CIRCBUF_HOSTIF_UNLOCK) and goes on
\* to the gate, a local queue opens the gate at once
circbuf_unlock(c, id) ==
    /\ pc[c] = "idle"
    /\ held[c][id] > 0
    /\ held' = [held EXCEPT ![c][id] = @ - 1]
    /\ IF inst[c][id].pCircBufArchInstance # NULL
       THEN /\ mem' = [mem EXCEPT ![LockAddr(c, id)] = CIRCBUF_HOSTIF_UNLOCK]
            /\ pc' = [pc EXCEPT ![c] = "unlock_irq"]
            /\ cur' = [cur EXCEPT ![c] = id]
            /\ irqDepth' = irqDepth
            /\ last' = Step(c, "unlock", id, U32(0), "na", "na", U32(0), "wr",
                            CIRCBUF_HOSTIF_UNLOCK)
       ELSE /\ target_enableGlobalInterrupt(c, TRUE)
            /\ last' = Step(c, "unlock", id, U32(0), "na", "returned", U32(0),
                            "none", 0)
            /\ UNCHANGED << mem, pc, cur >>
    /\ hist' = [hist EXCEPT ![c] = NoAccess]
    /\ UNCHANGED << inst, handle, heap, heapFault >>

\* target_enableGlobalInterrupt(TRUE) at the end of a shared circbuf_unlock
circbuf_unlock_enable(c) ==
    /\ pc[c] = "unlock_irq"
    /\ target_enableGlobalInterrupt(c, TRUE)
    /\ pc' = [pc EXCEPT ![c] = "idle"]
    /\ last' = Step(c, "unlock_irq", cur[c], U32(0), "na", "returned", U32(0),
                    "none", 0)
    /\ UNCHANGED << inst, handle, mem, heap, heapFault, cur, held, hist >>

----------------------------------------------------------------------------
(* The two CPUs on the shared window *)

Next ==
    \E c \in CPU :
        \/ \E id \in QueueIds, h \in HostifInstances :
               circbuf_createInstance(c, id, h)
        \/ \E id \in SharedIds, size \in SpecSizes, ret \in HostifRet :
               circbuf_allocBuffer(c, id, size, NULL, ret)
        \/ \E id \in QueueIds, ret \in HostifRet :
               circbuf_connectBuffer(c, id, ret)
        \/ \E id \in QueueIds : circbuf_lock(c, id)
        \/ circbuf_lock_read(c)
        \/ circbuf_lock_write(c)
        \/ \E id \in QueueIds : circbuf_unlock(c, id)
        \/ circbuf_unlock_enable(c)
        \/ Isr(c)

Spec == Init /\ [][Next]_vars

----------------------------------------------------------------------------
(* The queue API in full: the PCP, which owns the window, creates,         *)
(* allocates, frees and re-attaches queues of both kinds with every size   *)
(* and every answer of its collaborators, while the host attaches to the   *)
(* shared queue and takes and releases its lock.                           *)

ApiNext ==
    \/ \E id \in QueueIds, h \in HostifInstances :
           circbuf_createInstance("pcp", id, h)
    \/ \E id \in QueueIds, size \in SizeInputs, ret \in HostifRet,
             pBlock \in {NULL} \cup HeapBlocks :
           circbuf_allocBuffer("pcp", id, size, pBlock, ret)
    \/ \E id \in QueueIds : circbuf_freeBuffer("pcp", id)
    \/ \E id \in QueueIds, ret \in HostifRet :
           circbuf_connectBuffer("pcp", id, ret)
    \/ \E id \in QueueIds : circbuf_disconnectBuffer("pcp", id)
    \/ \E id \in QueueIds : circbuf_freeInstance("pcp", id)
    \/ \E id \in SharedIds : circbuf_createInstance("host", id, HostifHandle)
    \/ \E id \in SharedIds :
           circbuf_connectBuffer("host", id, "kHostifSuccessful")
    \/ \E id \in SharedIds : HeldTotal("host") = 0 /\ circbuf_lock("host", id)
    \/ circbuf_lock_read("host")
    \/ circbuf_lock_write("host")
    \/ \E id \in SharedIds : circbuf_unlock("host", id)
    \/ circbuf_unlock_enable("host")

ApiSpec == Init /\ [][ApiNext]_vars

----------------------------------------------------------------------------
(* The lock protocol alone: each queue is set up once (the PCP allocates   *)
(* the shared queue, the host then attaches to it), after which both CPUs  *)
(* run circbuf_lock / critical section / circbuf_unlock without nesting.   *)

Wired(c, id) == inst[c][id].pCircBufHeader # NULL

LockSetup ==
    \/ \E c \in CPU, id \in QueueIds :
           id \notin handle[c] /\ circbuf_createInstance(c, id, HostifHandle)
    \/ \E id \in SharedIds :
           /\ ~Wired("pcp", id)
           /\ circbuf_allocBuffer("pcp", id, U32(BufSize), NULL, "kHostifSuccessful")
    \/ \E id \in SharedIds :
           /\ Wired("pcp", id) /\ ~Wired("host", id)
           /\ circbuf_connectBuffer("host", id, "kHostifSuccessful")

LockCall(c) == \E id \in QueueIds : HeldTotal(c) = 0 /\ circbuf_lock(c, id)

UnlockCall(c) == \E id \in QueueIds : circbuf_unlock(c, id)

LockNext ==
    \/ LockSetup
    \/ \E c \in CPU :
           \/ LockCall(c)
           \/ circbuf_lock_read(c)
           \/ circbuf_lock_write(c)
           \/ UnlockCall(c)
           \/ circbuf_unlock_enable(c)

LockSpec == Init /\ [][LockNext]_vars

\* Each CPU runs on its own: a step inside circbuf_lock or circbuf_unlock
\* that can be taken is taken, and a CPU inside a critical section goes on
\* to call circbuf_unlock.  Nothing obliges a CPU to call circbuf_lock.
LockFairness ==
    \A c \in CPU :
        /\ WF_vars(circbuf_lock_read(c))
        /\ WF_vars(circbuf_lock_write(c))
        /\ WF_vars(UnlockCall(c))
        /\ WF_vars(circbuf_unlock_enable(c))

FairLockSpec == Init /\ [][LockNext]_vars /\ LockFairness

----------------------------------------------------------------------------
(* Properties *)

\* CPU c has returned from circbuf_lock on queue id and not yet called the
\* matching circbuf_unlock
InCritical(c, id) == held[c][id] > 0

\* CPU c is inside circbuf_lock, between its entry and its return
InLock(c) == pc[c] \in {"lock_rd", "lock_wr"}

\* C1: mutual exclusion of the shared lock: in no reachable state have both
\* CPUs returned from circbuf_lock on the same shared queue with neither
\* having called circbuf_unlock yet.
C1_MutualExclusion ==
    \A id \in SharedIds : ~(InCritical("pcp", id) /\ InCritical("host", id))

\* C2 as claimed: the lock byte of a shared slot is in every reachable state
\* UNLOCK (0), LOCK_PCP (1) or LOCK_HOST (2), and every write to it (from circbuf_allocBuffer,
\* circbuf_lock, circbuf_unlock) stores UNLOCK or the writer's own identity:
\* the PCP never writes 2, the host never writes 1.
C2_LockByteValues ==
    /\ \A id \in SharedIds : mem[BufBase(id)] \in {0, 1, 2}
    /\ last.acc = "wr" =>
          /\ last.op \in {"allocBuffer", "lock_wr", "unlock"}
          /\ mem[BufBase(last.id)] = last.val
          /\ last.val \in {0, 1, 2}
          /\ last.cpu = "pcp" => last.val # 2
          /\ last.cpu = "host" => last.val # 1

\* what every write to the lock byte stores
C2_WriteValues ==
    last.acc = "wr" =>
        /\ last.op \in {"allocBuffer", "lock_wr", "unlock"}
        /\ mem[BufBase(last.id)] = last.val
        /\ last.val \in {0, 1, 2}
        /\ last.cpu = "pcp" => last.val # 2
        /\ last.cpu = "host" => last.val # 1

C2_WrittenByteStep ==
    \A id \in SharedIds :
        /\ mem'[BufBase(id)] # mem[BufBase(id)] =>
              /\ last'.acc = "wr" /\ last'.id = id
              /\ mem'[BufBase(id)] = last'.val
        /\ (mem[BufBase(id)] \in {0, 1, 2}
               \/ (last'.acc = "wr" /\ last'.id = id)) =>
              mem'[BufBase(id)] \in {0, 1, 2}

\* C2 as amended: every write a CPU performs to the lock byte of a shared
\* slot (in circbuf_allocBuffer, circbuf_lock, circbuf_unlock) stores UNLOCK
\* or that CPU's own identity, the PCP never 2 and the host never 1; the byte
\* changes by such a write only, so from its first write on, and from the
\* start if it held one of them, it is one of UNLOCK (0), LOCK_PCP (1),
\* LOCK_HOST (2).  Before its first write it holds what the window held.
C2_WrittenLockByteValues == []C2_WriteValues /\ [][C2_WrittenByteStep]_vars

\* the host has just written its identity into the lock byte
C2_Witness ==
    /\ last.cpu = "host" /\ last.op = "lock_wr" /\ last.val = 2
    /\ mem[BufBase(last.id)] = 2

\* C3: for every queue, shared or local, a CPU that spins inside
\* circbuf_lock or is between the return of circbuf_lock and the matching
\* circbuf_unlock has its global interrupts disabled, and no interrupt
\* handler of that CPU runs there.
C3_IrqOffInCritical ==
    /\ \A c \in CPU : (InLock(c) \/ HeldTotal(c) > 0) => ~IrqEnabled(c)
    /\ last.op = "isr" => (~InLock(last.cpu) /\ HeldTotal(last.cpu) = 0)

\* an inner circbuf_unlock has returned while an outer lock is still held
C3_Witness ==
    \E c \in CPU :
        /\ last.cpu = c /\ last.op \in {"unlock", "unlock_irq"}
        /\ last.rc = "returned"
        /\ HeldTotal(c) = 1 /\ ~IrqEnabled(c)

\* C4: circbuf_freeBuffer called twice in a row on a local-only instance after
\* a successful circbuf_allocBuffer never hands an already freed block to
\* OPLK_FREE.
C4_NoDoubleFree ==
    /\ ~(last.op = "freeBuffer" /\ last.ext = "free_freed")
    /\ \A c \in CPU : ~heapFault[c]

\* C5: circbuf_allocBuffer on a shared instance returns kCircBufNoResource
\* exactly when hostif_getBuf fails or the requested size is strictly greater
\* than the slot capacity (a request equal to the capacity succeeds), and on
\* such a failure the header pointer, the payload pointer, the caller's size
\* variable and the lock byte are left unchanged.
C5_AllocSharedStep ==
    (last'.op = "allocBuffer" /\ IsShared(last'.id)) =>
        /\ last'.rc \in {"kCircBufOk", "kCircBufNoResource"}
        /\ (last'.rc = "kCircBufNoResource") <=>
              \/ last'.ext = "getBuf_failed"
              \/ last'.size.hi > 0
              \/ last'.size.lo > BufSize
        /\ last'.rc = "kCircBufNoResource" =>
              /\ inst' = inst
              /\ mem' = mem
              /\ last'.out = last'.size
              /\ last'.acc = "none"

C5_AllocSharedFailure == [][C5_AllocSharedStep]_vars

\* an allocation one byte over the capacity has failed on an attached queue
\* whose lock the host holds
C5_Witness ==
    /\ last.op = "allocBuffer" /\ IsShared(last.id)
    /\ last.rc = "kCircBufNoResource" /\ last.ext = "getBuf_ok"
    /\ last.size = U32(BufSize + 1)
    /\ Wired(last.cpu, last.id)
    /\ mem[BufBase(last.id)] = 2

\* C6: after circbuf_allocBuffer succeeds on a shared instance the lock byte
\* of the slot is UNLOCK and the size handed back is the requested size minus
\* the envelope size (lock byte, 3 reserved bytes, ring header), in the size_t
\* arithmetic of the code; after it succeeds on a local-only instance the size
\* is unchanged and no lock byte is written.
C6_AllocSuccessStep ==
    (last'.op = "allocBuffer" /\ last'.rc = "kCircBufOk") =>
        IF IsShared(last'.id)
        THEN /\ mem'[BufBase(last'.id)] = 0
             /\ AddU32(last'.out, U32(1 + 3 + SizeofCircBufHeader)) = last'.size
             /\ (last'.size.hi = 0 /\ last'.size.lo >= 1 + 3 + SizeofCircBufHeader)
                   => last'.out = U32(last'.size.lo - (1 + 3 + SizeofCircBufHeader))
        ELSE /\ last'.out = last'.size
             /\ last'.acc = "none"
             /\ mem' = mem

C6_AllocSuccess == [][C6_AllocSuccessStep]_vars

\* the PCP has allocated the whole slot while the host held its lock
C6_Witness ==
    /\ last.op = "allocBuffer" /\ IsShared(last.id) /\ last.rc = "kCircBufOk"
    /\ last.size = U32(BufSize)
    /\ last.out = U32(BufSize - SizeofCircBufHostiBuffer)
    /\ InCritical("host", last.id)
    /\ mem[BufBase(last.id)] = 0

\* C7: circbuf_connectBuffer never writes the lock byte or the ring header:
\* on a shared instance it only sets the header and payload pointers of the
\* instance from the slot base (and leaves them, returning
\* kCircBufNoResource, when hostif_getBuf fails); on a local-only instance it
\* changes nothing and returns kCircBufOk.  A lock held by the other CPU
\* stays held.
C7_ConnectStep ==
    last'.op = "connectBuffer" =>
        LET c == last'.cpu
            id == last'.id
        IN  /\ mem' = mem
            /\ last'.acc = "none"
            /\ UNCHANGED << handle, heap, heapFault, pc, cur, held, irqDepth, hist >>
            /\ \A d \in CPU, j \in QueueIds :
                  (d # c \/ j # id) => inst'[d][j] = inst[d][j]
            /\ inst'[c][id].pCircBufArchInstance = inst[c][id].pCircBufArchInstance
            /\ inst'[c][id].bufferId = inst[c][id].bufferId
            /\ IF IsShared(id)
               THEN IF last'.ext = "getBuf_ok"
                    THEN /\ last'.rc = "kCircBufOk"
                         /\ inst'[c][id].pCircBufHeader = BufBase(id) + 4
                         /\ inst'[c][id].pCircBuf =
                               BufBase(id) + 4 + SizeofCircBufHeader
                    ELSE /\ last'.ext = "getBuf_failed"
                         /\ last'.rc = "kCircBufNoResource"
                         /\ inst' = inst
               ELSE /\ last'.rc = "kCircBufOk"
                    /\ inst' = inst

C7_ConnectFrame == [][C7_ConnectStep]_vars

\* the host has attached while the PCP is inside its critical section
C7_Witness ==
    /\ last.op = "connectBuffer" /\ last.cpu = "host" /\ last.rc = "kCircBufOk"
    /\ IsShared(last.id)
    /\ InCritical("pcp", last.id)
    /\ mem[BufBase(last.id)] = 1

\* C8: circbuf_createInstance(id) returns NULL exactly when the id maps to a
\* shared slot and hostif_getInstance gives no handle; for a local-only id
\* it always succeeds, marks the instance local-only and does not consult the
\* host interface; on failure the recorded id and the shared/local marking of
\* the instance stay as they were.
C8_CreateStep ==
    last'.op = "createInstance" =>
        LET c == last'.cpu
            id == last'.id
        IN  /\ last'.rc \in {"NULL", "instance"}
            /\ (last'.rc = "NULL") <=> (IsShared(id) /\ last'.ext = "absent")
            /\ ~IsShared(id) =>
                  /\ last'.ext = "na"
                  /\ inst'[c][id].pCircBufArchInstance = NULL
            /\ last'.rc = "instance" =>
                  /\ inst'[c][id].bufferId = id
                  /\ id \in handle'[c]
                  /\ IsShared(id) => inst'[c][id].pCircBufArchInstance # NULL
            /\ last'.rc = "NULL" => (inst' = inst /\ handle' = handle)

C8_CreateInstance == [][C8_CreateStep]_vars

\* a second creation of an attached shared queue has failed for want of the
\* host interface handle
C8_Witness ==
    /\ last.op = "createInstance" /\ last.rc = "NULL" /\ IsShared(last.id)
    /\ last.id \in handle[last.cpu]
    /\ inst[last.cpu][last.id].pCircBufArchInstance # NULL
    /\ Wired(last.cpu, last.id)

\* C9: on a local-only instance circbuf_lock and circbuf_unlock never read or
\* write a lock byte: circbuf_lock only disables the local interrupts and
\* returns without spinning, circbuf_unlock only re-enables them, whatever
\* the other CPU does and whatever the shared buffers hold.
C9_LocalLockStep ==
    /\ (last'.op \in {"lock", "unlock"} /\ ~IsShared(last'.id)) =>
          LET c == last'.cpu IN
          /\ last'.acc = "none"
          /\ mem' = mem
          /\ last'.rc = "returned"
          /\ pc[c] = "idle" /\ pc'[c] = "idle"
          /\ irqDepth'[c] =
                irqDepth[c] + (IF last'.op = "lock" THEN 1 ELSE -1)
          /\ irqDepth'[Other(c)] = irqDepth[Other(c)]
          /\ held'[Other(c)] = held[Other(c)]
          /\ UNCHANGED << inst, handle, heap, heapFault, cur >>
    /\ last'.op \in {"lock_rd", "lock_wr", "unlock_irq"} => IsShared(last'.id)

C9_LocalLockFrame == [][C9_LocalLockStep]_vars

\* the PCP has locked its local queue while the host owns the byte of the
\* shared one
C9_Witness ==
    /\ last.op = "lock" /\ last.cpu = "pcp" /\ ~IsShared(last.id)
    /\ InCritical("pcp", last.id)
    /\ \E id \in SharedIds : InCritical("host", id) /\ mem[BufBase(id)] = 2

\* C10: bounded waiting as liveness: with both CPUs scheduled fairly and
\* every CPU that acquires the lock going on to call circbuf_unlock, every
\* call of circbuf_lock on the shared queue eventually returns, even when
\* the other CPU keeps re-acquiring the lock.
C10_NoStarvation == \A c \in CPU : InLock(c) ~> ~InLock(c)

\* C10 as amended: under the same fairness every call of circbuf_lock
\* eventually returns unless the other CPU enters circbuf_lock again and
\* again for ever.
C10_ReturnsUnlessReacquired ==
    \A c \in CPU : ([]<>InLock(Other(c))) \/ (InLock(c) ~> ~InLock(c))

\* the PCP, inside circbuf_lock, has read the host's identity and spins
\* while the host is in its critical section
C10_Witness ==
    /\ InLock("pcp")
    /\ last.cpu = "pcp" /\ last.op = "lock_rd" /\ last.val = 2
    /\ InCritical("host", last.id)

\* CPU c is at the HOSTIF_RD8 of circbuf_lock on shared queue id
AtRead(c, id) == pc[c] = "lock_rd" /\ cur[c] = id

\* a step in which the other CPU writes the lock byte of queue id
PeerWrites(c, id) ==
    last'.cpu = Other(c) /\ last'.acc = "wr" /\ last'.id = id

\* the lock byte of queue id holds the identity of the CPU other than c while
\* c is about to read it
PeerHolds(c, id) ==
    AtRead(c, id) /\ mem[BufBase(id)] = CIRCBUF_HOSTIF_LOCK(Other(c))

\* C11: no timeout: if the lock byte holds the other CPU's identity when a
\* CPU is about to read it in circbuf_lock, then for as long as the other CPU
\* does not write the byte again the call does not return, performs no write
\* to the lock byte and keeps the local interrupts disabled, every read
\* showing the other identity again: with a wedged peer this lasts for ever.
C11_WedgedPeerStep ==
    \A c \in CPU : \A id \in SharedIds :
        (PeerHolds(c, id) /\ ~PeerWrites(c, id)) =>
            /\ PeerHolds(c, id)'
            /\ ~IrqEnabled(c) /\ ~IrqEnabled(c)'
            /\ held'[c] = held[c]
            /\ hist'[c].wr = hist[c].wr
            /\ mem' = mem
            /\ last'.cpu = c =>
                  /\ last'.op = "lock_rd" /\ last'.acc = "rd"
                  /\ last'.val = CIRCBUF_HOSTIF_LOCK(Other(c))
                  /\ last'.rc = "na"

C11_WedgedPeer == [][C11_WedgedPeerStep]_vars

\* the host spins in circbuf_lock, having read the PCP's identity MaxCount
\* times or more without a write, while the PCP sits in its critical section
C11_Witness ==
    \E id \in SharedIds :
        /\ AtRead("host", id)
        /\ hist["host"] = [wr |-> 0, rd |-> MaxCount]
        /\ last.cpu = "host" /\ last.op = "lock_rd" /\ last.val = 1
        /\ ~IrqEnabled("host")
        /\ InCritical("pcp", id) /\ pc["pcp"] = "idle"

\* CPU c has written its identity in circbuf_lock and not yet read the byte
\* back
AtReadBack(c) == pc[c] = "lock_rd" /\ hist[c].wr > 0 /\ hist[c].rd = 0

\* C12: read-back confirmation: circbuf_lock on a shared queue returns only
\* in the step of a read of the lock byte that shows the caller's own
\* identity; the write of the identity, made upon a read of UNLOCK, never
\* returns but leads to the read, and nothing but that read takes the caller
\* on; a read-back that shows UNLOCK or the other identity keeps the caller in
\* the loop, from where only a further read of its own identity lets it out.
C12_ReadBackStep ==
    \A c \in CPU :
        /\ (\E id \in SharedIds : held'[c][id] > held[c][id]) =>
              /\ last'.cpu = c /\ last'.op = "lock_rd" /\ last'.acc = "rd"
              /\ last'.rc = "returned"
              /\ last'.val = CIRCBUF_HOSTIF_LOCK(c)
              /\ mem[BufBase(last'.id)] = CIRCBUF_HOSTIF_LOCK(c)
              /\ held'[c][last'.id] = held[c][last'.id] + 1
              /\ pc[c] = "lock_rd" /\ pc'[c] = "idle"
        /\ (last'.cpu = c /\ last'.op = "lock_wr") =>
              /\ pc[c] = "lock_wr" /\ hist[c].rd > 0
              /\ last'.val = CIRCBUF_HOSTIF_LOCK(c)
              /\ held'[c] = held[c]
              /\ AtReadBack(c)'
        /\ AtReadBack(c) =>
              \/ /\ last'.cpu # c
                 /\ AtReadBack(c)' /\ held'[c] = held[c] /\ hist'[c] = hist[c]
              \/ /\ last'.cpu = c /\ last'.op = "lock_rd" /\ last'.acc = "rd"
                 /\ last'.val = mem[BufBase(last'.id)]
                 /\ hist'[c] = [hist[c] EXCEPT !.rd = 1]
                 /\ IF last'.val = CIRCBUF_HOSTIF_LOCK(c)
                    THEN last'.rc = "returned"
                    ELSE /\ last'.rc = "na"
                         /\ held'[c] = held[c]
                         /\ InLock(c)'
                         /\ pc'[c] = IF last'.val = CIRCBUF_HOSTIF_UNLOCK
                                     THEN "lock_wr" ELSE "lock_rd"

C12_ReadBack == [][C12_ReadBackStep]_vars

\* the PCP has written its identity and its read-back has shown the identity
\* of the host, which wrote in between: the PCP is back at the read
C12_Witness ==
    /\ last.cpu = "pcp" /\ last.op = "lock_rd" /\ last.val = 2
    /\ last.rc = "na"
    /\ hist["pcp"] = [wr |-> 1, rd |-> 1]
    /\ AtRead("pcp", last.id)
    /\ held["pcp"][last.id] = 0

\* the four stages of a circbuf_lock call of CPU c on shared queue id that
\* finds the byte UNLOCK and is not disturbed: 0 at the first read, 1 at the
\* write, 2 at the confirming read, 3 returned
Uncontended(c, id, k) ==
    /\ cur[c] = id
    /\ pc[c] = (IF k = 1 THEN "lock_wr" ELSE IF k = 3 THEN "idle" ELSE "lock_rd")
    /\ hist[c] = [wr |-> (IF k < 2 THEN 0 ELSE 1),
                  rd |-> (IF k \in {1, 3} THEN 1 ELSE 0)]
    /\ mem[BufBase(id)] = (IF k < 2 THEN CIRCBUF_HOSTIF_UNLOCK
                           ELSE CIRCBUF_HOSTIF_LOCK(c))
    /\ held[c][id] = (IF k = 3 THEN 1 ELSE 0)

C13_UncontendedStep ==
    \A c \in CPU : \A id \in SharedIds : \A k \in 0..2 :
        (Uncontended(c, id, k) /\ ~PeerWrites(c, id)) =>
            \/ Uncontended(c, id, k)' /\ last'.cpu # c
            \/ /\ Uncontended(c, id, k + 1)'
               /\ last'.cpu = c
               /\ last'.acc = (IF k = 1 THEN "wr" ELSE "rd")
               /\ last'.rc = (IF k = 2 THEN "returned" ELSE "na")

\* C13: uncontended acquisition terminates: a circbuf_lock call on a shared
\* queue that finds the lock byte UNLOCK and is not crossed by a write of the
\* other CPU goes, each of its steps being taken in the end, from the read of
\* UNLOCK to exactly one write of the caller's identity and from there to one
\* confirming read, on which it returns with the lock byte equal to the
\* caller's identity; it does not write again.
C13_UncontendedTerminates ==
    /\ [][C13_UncontendedStep]_vars
    /\ \A c \in CPU : \A id \in SharedIds : \A k \in 0..2 :
           Uncontended(c, id, k) ~> ~Uncontended(c, id, k)

\* the host has returned from circbuf_lock after one write and one confirming
\* read, the PCP being outside circbuf_lock and outside its critical section
C13_Witness ==
    \E id \in SharedIds :
        /\ Uncontended("host", id, 3)
        /\ last.cpu = "host" /\ last.op = "lock_rd" /\ last.rc = "returned"
        /\ last.val = 2
        /\ pc["pcp"] = "idle" /\ ~InCritical("pcp", id)

\* if the lock byte of queue id holds the identity of CPU c, then c is inside
\* circbuf_lock on id or in its critical section, with its interrupts
\* disabled
GateCovers(c, id) ==
    mem[BufBase(id)] = CIRCBUF_HOSTIF_LOCK(c) =>
        /\ ~IrqEnabled(c)
        /\ (InLock(c) /\ cur[c] = id) \/ InCritical(c, id)

\* every write to the lock byte brings this about and every step keeps it: an
\* identity a CPU wrote is in the byte only while that CPU's interrupts are
\* disabled (a byte that held the value when the program started, and has
\* not been written since, was not written by the CPU)
C14_GateCoversByteStep ==
    \A c \in CPU : \A id \in SharedIds :
        (GateCovers(c, id) \/ (last'.acc = "wr" /\ last'.id = id)) =>
            GateCovers(c, id)'

C14_GateOrderStep ==
    \A c \in CPU : last'.cpu = c =>
        /\ last'.op \in {"lock_rd", "lock_wr"} =>
              /\ ~IrqEnabled(c) /\ ~IrqEnabled(c)'
              /\ irqDepth' = irqDepth
        /\ (last'.op = "lock" /\ IsShared(last'.id)) =>
              /\ last'.acc = "none" /\ mem' = mem
              /\ irqDepth'[c] = irqDepth[c] + 1
              /\ pc'[c] = "lock_rd" /\ hist'[c] = NoAccess
        /\ (last'.op = "unlock" /\ IsShared(last'.id)) =>
              /\ last'.acc = "wr" /\ last'.val = CIRCBUF_HOSTIF_UNLOCK
              /\ mem'[BufBase(last'.id)] = CIRCBUF_HOSTIF_UNLOCK
              /\ irqDepth' = irqDepth
              /\ ~IrqEnabled(c)'
              /\ pc'[c] = "unlock_irq"
        /\ last'.op = "unlock_irq" =>
              /\ pc[c] = "unlock_irq" /\ pc'[c] = "idle"
              /\ mem' = mem
              /\ mem[BufBase(last'.id)] # CIRCBUF_HOSTIF_LOCK(c)
              /\ irqDepth'[c] = irqDepth[c] - 1

\* C14: ordering of the gate and the lock: circbuf_lock disables the local
\* interrupts before its first read of the lock byte and every access of its
\* loop is made with them disabled; circbuf_unlock on a shared queue writes
\* UNLOCK to the lock byte first and re-enables the interrupts in a later
\* step; in no state has a CPU its interrupts enabled while the lock byte
\* holds the identity it wrote.
C14_GateOrder ==
    [][C14_GateCoversByteStep]_vars /\ [][C14_GateOrderStep]_vars

\* the host has written UNLOCK in circbuf_unlock and not yet opened its gate,
\* while the PCP spins on the byte
C14_Witness ==
    /\ last.cpu = "host" /\ last.op = "unlock" /\ IsShared(last.id)
    /\ pc["host"] = "unlock_irq" /\ ~IrqEnabled("host")
    /\ HeldTotal("host") = 0
    /\ mem[BufBase(last.id)] = CIRCBUF_HOSTIF_UNLOCK
    /\ AtRead("pcp", last.id) /\ hist["pcp"].rd > 0

\* C15: lock byte ownership: after any sequence of circbuf_allocBuffer,
\* circbuf_connectBuffer, circbuf_lock and circbuf_unlock by the two CPUs,
\* whenever a CPU is between the return of circbuf_lock and its matching
\* circbuf_unlock on a shared queue, the lock byte holds that CPU's identity:
\* it is never UNLOCK and never the other identity.
C15_LockByteOwnership ==
    \A c \in CPU : \A id \in SharedIds :
        InCritical(c, id) => mem[BufBase(id)] = CIRCBUF_HOSTIF_LOCK(c)

\* both CPUs have read UNLOCK in circbuf_lock on queue id and written their
\* identity, neither has read the byte back, and the write of w landed last
BothWrote(w, id) ==
    /\ AtRead("pcp", id) /\ AtReadBack("pcp")
    /\ AtRead("host", id) /\ AtReadBack("host")
    /\ mem[BufBase(id)] = CIRCBUF_HOSTIF_LOCK(w)

\* CPU c has written its identity in circbuf_lock on queue id, the other CPU
\* has written over it, and c is at the read
Overwritten(c, id) ==
    /\ AtRead(c, id) /\ hist[c].wr > 0 /\ held[c][id] = 0
    /\ mem[BufBase(id)] = CIRCBUF_HOSTIF_LOCK(Other(c))

C16_LoserSpinsStep ==
    \A c \in CPU : \A id \in SharedIds :
        (Overwritten(c, id) /\ mem'[BufBase(id)] # CIRCBUF_HOSTIF_UNLOCK) =>
            /\ Overwritten(c, id)'
            /\ mem' = mem
            /\ hist'[c].wr = hist[c].wr
            /\ last'.cpu = c =>
                  /\ last'.op = "lock_rd" /\ last'.acc = "rd"
                  /\ last'.rc = "na"

\* C16: last writer wins when the writes precede the read-backs: if both CPUs
\* read UNLOCK and both write their identity before either reads the byte
\* back, the CPU whose write landed last comes to leave circbuf_lock while the
\* other one is still in it, and the other one stays in it, reading without
\* writing, until the lock byte becomes UNLOCK again.
C16_LastWriterWins ==
    /\ [][C16_LoserSpinsStep]_vars
    /\ \A w \in CPU : \A id \in SharedIds :
           BothWrote(w, id) ~> (InCritical(w, id) /\ Overwritten(Other(w), id))

\* the host, whose write landed last, has read it back and returned; the PCP
\* has read the host's identity over its own and spins
C16_Witness ==
    \E id \in SharedIds :
        /\ InCritical("host", id) /\ pc["host"] = "idle"
        /\ hist["host"] = [wr |-> 1, rd |-> 1]
        /\ Overwritten("pcp", id)
        /\ hist["pcp"].wr = 1 /\ hist["pcp"].rd > 0

\* both CPUs are inside circbuf_lock on queue id and the lock byte is UNLOCK
BothInside(id) ==
    /\ InLock("pcp") /\ cur["pcp"] = id
    /\ InLock("host") /\ cur["host"] = id
    /\ mem[BufBase(id)] = CIRCBUF_HOSTIF_UNLOCK

\* C17: progress without livelock: from a lock byte equal to UNLOCK with both
\* CPUs inside circbuf_lock on the same shared queue, and every step of
\* circbuf_lock that can be taken being taken in the end, at least one of the
\* two CPUs returns from circbuf_lock: they do not write over each other's
\* identity for ever.
C17_Progress ==
    \A id \in SharedIds :
        BothInside(id) ~> (InCritical("pcp", id) \/ InCritical("host", id))

\* both CPUs have read UNLOCK in circbuf_lock and are about to write their
\* identity
C17_Witness ==
    \E id \in SharedIds :
        /\ BothInside(id)
        /\ pc["pcp"] = "lock_wr" /\ pc["host"] = "lock_wr"
        /\ hist["pcp"] = [wr |-> 0, rd |-> 1]
        /\ hist["host"] = [wr |-> 0, rd |-> 1]

\* CPU c has entered circbuf_lock on shared queue id, has not read yet, and
\* the lock byte holds its own identity
OwnAtEntry(c, id) ==
    /\ AtRead(c, id) /\ hist[c] = NoAccess
    /\ mem[BufBase(id)] = CIRCBUF_HOSTIF_LOCK(c)

\* C18 as claimed: non-counting re-acquisition: a circbuf_lock call that finds
\* the lock byte equal to the caller's own identity returns after a single
\* read without writing, and a single later circbuf_unlock sets the lock byte
\* to UNLOCK and enables the interrupts.
C18_UnlockEnablesInterrupts ==
    /\ (last.op = "lock_rd" /\ last.rc = "returned"
           /\ hist[last.cpu].wr = 0) => hist[last.cpu].rd = 1
    /\ (last.op = "unlock" /\ IsShared(last.id)) =>
          mem[BufBase(last.id)] = CIRCBUF_HOSTIF_UNLOCK
    /\ (last.op = "unlock_irq" /\ last.rc = "returned"
           /\ \A j \in QueueIds \ SharedIds : held[last.cpu][j] = 0) =>
          IrqEnabled(last.cpu)

C18_ReacquireStep ==
    \A c \in CPU : \A id \in SharedIds :
        /\ (OwnAtEntry(c, id) /\ last'.cpu = c) =>
              /\ last'.op = "lock_rd" /\ last'.acc = "rd"
              /\ last'.val = CIRCBUF_HOSTIF_LOCK(c)
              /\ last'.rc = "returned"
              /\ mem' = mem
              /\ hist'[c] = [wr |-> 0, rd |-> 1]
              /\ held'[c][id] = held[c][id] + 1
              /\ pc'[c] = "idle"
        /\ (last'.cpu = c /\ last'.op = "unlock" /\ last'.id = id) =>
              /\ last'.acc = "wr"
              /\ mem'[BufBase(id)] = CIRCBUF_HOSTIF_UNLOCK
              /\ held'[c][id] = held[c][id] - 1
              /\ irqDepth' = irqDepth
        /\ (last'.cpu = c /\ last'.op = "unlock_irq" /\ last'.id = id) =>
              /\ last'.rc = "returned"
              /\ mem' = mem /\ held' = held
              /\ irqDepth'[c] = irqDepth[c] - 1
              /\ IrqEnabled(c)' <=> (HeldTotal(c)' = 0)

\* C18 as amended: a circbuf_lock call that finds the lock byte equal to the
\* caller's own identity returns after a single read without writing; every
\* circbuf_unlock on the shared queue, matched by one lock call or by several,
\* sets the lock byte to UNLOCK and undoes one disabling of the interrupts,
\* which are enabled again only when no lock call of the CPU is unmatched:
\* after lock, lock, unlock by one CPU the lock byte is UNLOCK and the
\* interrupts are still disabled although one lock call is unmatched.
C18_NonCountingReacquire == [][C18_ReacquireStep]_vars

\* the PCP has locked the shared queue twice and unlocked it once, the host
\* keeping out: the byte is UNLOCK, one lock call is unmatched and the
\* interrupts of the PCP are disabled
C18_Witness ==
    \E id \in SharedIds :
        /\ last.cpu = "pcp" /\ last.op = "unlock_irq" /\ last.id = id
        /\ held["pcp"][id] = 1 /\ HeldTotal("pcp") = 1
        /\ pc["pcp"] = "idle"
        /\ mem[BufBase(id)] = CIRCBUF_HOSTIF_UNLOCK
        /\ ~IrqEnabled("pcp")
        /\ id \notin handle["host"]

\* the pointers of a wired shared instance and the byte its lock and unlock
\* address, against the slot base hostif_getBuf reports
C19_SlotLayout ==
    \A c \in CPU : \A id \in SharedIds :
        (inst[c][id].pCircBufArchInstance # NULL /\ Wired(c, id)) =>
            /\ inst[c][id].pCircBufHeader = BufBase(id) + 4
            /\ inst[c][id].pCircBuf = BufBase(id) + 4 + SizeofCircBufHeader
            /\ LockAddr(c, id) = BufBase(id)

C19_SameByteStep ==
    /\ (last'.op \in {"allocBuffer", "connectBuffer"} /\ IsShared(last'.id)
           /\ last'.rc = "kCircBufOk") =>
          /\ inst'[last'.cpu][last'.id].pCircBufHeader = BufBase(last'.id) + 4
          /\ inst'[last'.cpu][last'.id].pCircBuf =
                BufBase(last'.id) + SizeofCircBufHostiBuffer
    /\ last'.acc = "wr" =>
          /\ mem'[BufBase(last'.id)] = last'.val
          /\ \A a \in WindowAddrs \ {BufBase(last'.id)} : mem'[a] = mem[a]
    /\ last'.acc = "rd" =>
          /\ last'.val = mem[BufBase(last'.id)]
          /\ mem' = mem
    /\ last'.acc = "none" => mem' = mem

\* C19: both CPUs address the same lock byte: after circbuf_allocBuffer or
\* circbuf_connectBuffer succeeds on a shared instance the header pointer is
\* the slot base + 4 and the payload pointer the slot base + the envelope
\* size, the envelope base circbuf_lock and circbuf_unlock recompute from the
\* header pointer is the slot base, and every access of alloc, lock and
\* unlock, on either CPU, reads or writes the byte at offset 0 of the slot and
\* no other cell of the window.
C19_SameLockByte == []C19_SlotLayout /\ [][C19_SameByteStep]_vars

\* the host, attached by circbuf_connectBuffer, has read in circbuf_lock the
\* identity the PCP, which allocated the queue, wrote in its own; the ring
\* header holds what it held at the start
C19_Witness ==
    \E id \in SharedIds :
        /\ last.cpu = "host" /\ last.op = "lock_rd" /\ last.id = id
        /\ last.val = 1
        /\ InCritical("pcp", id) /\ hist["pcp"].wr = 1
        /\ LockAddr("pcp", id) = BufBase(id)
        /\ LockAddr("host", id) = BufBase(id)
        /\ mem[BufBase(id) + OffsetofCircBufHeader] \in HeaderInputs \ {0}

\* C20: the payload reported by a successful shared circbuf_allocBuffer fits
\* in the slot: for every requested size from 0 up to the slot capacity,
\* sizes smaller than the envelope included, envelope size + returned payload
\* size is at most the slot capacity; the subtraction, made in the unsigned
\* arithmetic of size_t, does not wrap around to a huge payload size.
C20_PayloadFitsSlot ==
    (last.op = "allocBuffer" /\ IsShared(last.id) /\ last.rc = "kCircBufOk") =>
        /\ last.out.hi = 0
        /\ SizeofCircBufHostiBuffer + last.out.lo <= BufSize

====
